---- MODULE Spec2Model ----
(***************************************************************************)
(* Model of src/script.js: the edge-list parser (parseEdges), Dijkstra's   *)
(* algorithm with a re-sorted array as frontier (dijkstra), the path       *)
(* reconstruction (reconstructPath), the node extractor (extractNodes),    *)
(* the 'input' handler that fills the datalist from the textarea and the   *)
(* form's submit handler that chains the first three.  Lines are typed     *)
(* into the textarea while the page is "idle"; one query runs from "idle"  *)
(* to "done".                                                              *)
(*                                                                         *)
(* Strings are TLA+ strings (sequences of characters); a Map is a record   *)
(* of its keys in insertion order and a function on them.  A JavaScript    *)
(* number is an integer, with three encoded values: Huge (the double       *)
(* 1e308), Infinity and NaN.                                               *)
(***************************************************************************)
EXTENDS Integers, Sequences, FiniteSets, TLC

\* Most lines of an edge text that may hold any kind of line.
MaxLines == 3

\* Most lines of an edge text made of well-formed edge lines only.
MaxEdges == 4

VARIABLES
  edges,      \* page: edgesEl.value, the text of the textarea
  nodesDl,    \* page: the options of the datalist, as refillNodes left them
  pc,         \* position of the submit handler
  lines,      \* parseEdges: text.split(/\r?\n/)
  idx,        \* parseEdges: index in lines of the next line of the for loop
  undirected, \* parseEdges: the flag
  graph,      \* parseEdges: the Map being built
  gRet,       \* handler: the graph parseEdges returned, or None
  source,     \* dijkstra: its argument
  dist,       \* dijkstra: Map node -> distance
  prev,       \* dijkstra: Map node -> predecessor or Null
  visited,    \* dijkstra: Set
  pq,         \* dijkstra: array of <<d, u>>
  popped,     \* dijkstra: the entry the last iteration popped, and whether it expanded
  ret,        \* handler: the {dist, prev} dijkstra returned, or None
  target,     \* handler: targetEl.value.trim()
  outcome     \* handler: the renderResult call that ended the query, or None

vars == <<edges, nodesDl, pc, lines, idx, undirected, graph, gRet, source, dist, prev, visited,
          pq, popped, ret, target, outcome>>

-----------------------------------------------------------------------------
(* JavaScript values *)

Null == "null"

\* An absent value (undefined, or a variable not assigned yet) is the empty
\* sequence and a present value x is <<x>>.
None == <<>>
Some(x) == <<x>>

\* The double 1e308: finite, and more than half of Number.MAX_VALUE.
Huge == 1000
Infinity == 2000
NaN == 3000

\* Number.isFinite
IsFinite(w) == w # Infinity /\ w # NaN

\* a + b on non-negative doubles: exact on small integers, 1e308 absorbs a
\* small addend (rounding), and 1e308 + 1e308 overflows to Infinity.
Add(a, b) ==
  IF a = NaN \/ b = NaN THEN NaN
  ELSE IF a = Infinity \/ b = Infinity THEN Infinity
  ELSE IF a = Huge /\ b = Huge THEN Infinity
  ELSE IF a = Huge \/ b = Huge THEN Huge
  ELSE a + b

\* a < b: false whenever an operand is NaN.
Less(a, b) == a # NaN /\ b # NaN /\ a < b

-----------------------------------------------------------------------------
(* Strings *)

Char(s, i) == SubSeq(s, i, i)

\* What String.prototype.trim strips and /\s/ matches.
IsSpace(c) == c \in {" ", "\t", "\r", "\n"}

RECURSIVE TrimStart(_)
TrimStart(s) ==
  IF s # "" /\ IsSpace(Char(s, 1)) THEN TrimStart(SubSeq(s, 2, Len(s))) ELSE s

RECURSIVE TrimEnd(_)
TrimEnd(s) ==
  IF s # "" /\ IsSpace(Char(s, Len(s))) THEN TrimEnd(SubSeq(s, 1, Len(s) - 1)) ELSE s

\* String.prototype.trim
Trim(s) == TrimEnd(TrimStart(s))

\* s.split(/\r?\n/): cur is the piece being read.
RECURSIVE SplitLinesFrom(_, _)
SplitLinesFrom(s, cur) ==
  IF s = "" THEN <<cur>>
  ELSE IF Char(s, 1) = "\n"
    THEN <<cur>> \o SplitLinesFrom(SubSeq(s, 2, Len(s)), "")
  ELSE IF Len(s) >= 2 /\ Char(s, 1) = "\r" /\ Char(s, 2) = "\n"
    THEN <<cur>> \o SplitLinesFrom(SubSeq(s, 3, Len(s)), "")
  ELSE SplitLinesFrom(SubSeq(s, 2, Len(s)), cur \o Char(s, 1))

SplitLines(s) == SplitLinesFrom(s, "")

\* line.split(/\s+/) of a trimmed line: a separator is a maximal run of spaces.
RECURSIVE SplitFieldsFrom(_, _)
SplitFieldsFrom(s, cur) ==
  IF s = "" THEN <<cur>>
  ELSE IF IsSpace(Char(s, 1))
    THEN <<cur>> \o SplitFieldsFrom(TrimStart(s), "")
  ELSE SplitFieldsFrom(SubSeq(s, 2, Len(s)), cur \o Char(s, 1))

SplitFields(s) == SplitFieldsFrom(s, "")

\* line.startsWith(p)
StartsWith(s, p) == Len(s) >= Len(p) /\ SubSeq(s, 1, Len(p)) = p

Digits == <<"0", "1", "2", "3", "4", "5", "6", "7", "8", "9">>

IsDigit(c) == \E d \in 1..10 : Digits[d] = c

DigitValue(c) == (CHOOSE d \in 1..10 : Digits[d] = c) - 1

IsDigits(s) == s # "" /\ \A i \in 1..Len(s) : IsDigit(Char(s, i))

RECURSIVE DecimalValue(_)
DecimalValue(s) ==
  IF s = "" THEN 0
  ELSE 10 * DecimalValue(SubSeq(s, 1, Len(s) - 1)) + DigitValue(Char(s, Len(s)))

\* Number(s) on a field (no spaces, not empty): a decimal integer with an
\* optional sign, the literals 1e308 and Infinity, and NaN for anything else
\* the edge texts of this model contain.
Number(s) ==
  IF IsDigits(s) THEN DecimalValue(s)
  ELSE IF StartsWith(s, "-") /\ IsDigits(SubSeq(s, 2, Len(s)))
    THEN 0 - DecimalValue(SubSeq(s, 2, Len(s)))
  ELSE IF s = "1e308" THEN Huge
  ELSE IF s = "Infinity" THEN Infinity
  ELSE NaN

-----------------------------------------------------------------------------
(* Maps with insertion order *)

EmptyMap == [keys |-> <<>>, val |-> <<>>]

Range(seq) == {seq[i] : i \in 1..Len(seq)}

\* Map.prototype.has
Has(m, k) == k \in Range(m.keys)

IndexOf(m, k) == CHOOSE i \in 1..Len(m.keys) : m.keys[i] = k

\* Map.prototype.get of a key the map has
Get(m, k) == m.val[IndexOf(m, k)]

\* Map.prototype.set: a new key goes last, a known key keeps its place.
Set(m, k, v) ==
  IF Has(m, k)
    THEN [m EXCEPT !.val[IndexOf(m, k)] = v]
    ELSE [keys |-> Append(m.keys, k), val |-> Append(m.val, v)]

\* The keys of a map, as a set.
Keys(m) == Range(m.keys)

-----------------------------------------------------------------------------
(* parseEdges *)

\* ensure(u)
Ensure(g, u) == IF ~Has(g, u) THEN Set(g, u, EmptyMap) ELSE g

\* Mutant of Weight: a line without a weight gets the weight 0.
WeightDefaultZero(parts) == IF Len(parts) >= 3 THEN Number(parts[3]) ELSE 0

\* The weight of a line: its third field if it has one, else 1.
Weight(parts) == IF Len(parts) >= 3 THEN Number(parts[3]) ELSE 1

\* Mutant of InvalidWeight: the sign is not tested.
InvalidWeightSignUntested(w) == ~IsFinite(w)

\* The test that rejects a weight.
InvalidWeight(w) == ~IsFinite(w) \/ Less(w, 0)

\* The test that rejects a line for its number of fields.
TooFewFields(parts) == Len(parts) < 2

\* The lines the loop skips: blank ones and comments.
Skipped(line) == line = "" \/ StartsWith(line, "#")

\* Mutant of SetEdge: an edge already there keeps its weight.
SetEdgeKeepFirst(g, u, v, w) ==
  IF Has(Get(g, u), v) THEN g ELSE Set(g, u, Set(Get(g, u), v, w))

\* graph.get(u).set(v, w)
SetEdge(g, u, v, w) == Set(g, u, Set(Get(g, u), v, w))

\* Mutant of Install: the flag is ignored and only u -> v is set.
InstallOneWay(g, u, v, w, und) ==
  SetEdge(Ensure(Ensure(g, u), v), u, v, w)

\* Mutant of Install: v is registered only when its map is written to.
InstallEnsureLate(g, u, v, w, und) ==
  LET g2 == SetEdge(Ensure(g, u), u, v, w)
  IN  IF und THEN SetEdge(Ensure(g2, v), v, u, w) ELSE g2

\* The three statements that install an edge.
Install(g, u, v, w, und) ==
  LET g1 == Ensure(Ensure(g, u), v)
      g2 == SetEdge(g1, u, v, w)
  IN  IF und THEN SetEdge(g2, v, u, w) ELSE g2

\* One iteration of the for loop on the raw line: the graph after it, and the
\* message of the Error it throws, if it throws.
LineStep(g, raw, und) ==
  LET line == Trim(raw)
      parts == SplitFields(line)
      w == Weight(parts)
  IN  IF Skipped(line) THEN [graph |-> g, err |-> None]
      ELSE IF TooFewFields(parts)
        THEN [graph |-> g,
              err |-> Some("Invalid edge line (need at least u v): " \o line)]
      ELSE IF InvalidWeight(w)
        THEN [graph |-> g, err |-> Some("Invalid weight at line: " \o line)]
      ELSE [graph |-> Install(g, parts[1], parts[2], w, und), err |-> None]

\* The for loop from line i of ls on, from graph g: the graph returned, or
\* the message of the Error thrown.
RECURSIVE ParseFrom(_, _, _, _)
ParseFrom(g, ls, i, und) ==
  IF i > Len(ls) THEN [graph |-> g, err |-> None]
  ELSE LET r == LineStep(g, ls[i], und)
       IN  IF r.err # None THEN r ELSE ParseFrom(r.graph, ls, i + 1, und)

parseEdges(text, und) == ParseFrom(EmptyMap, SplitLines(text), 1, und)

-----------------------------------------------------------------------------
(* dijkstra *)

\* Mutant of Before: the comparator with its operands exchanged.
BeforeReversed(a, b) == Less(b[1], a[1])

\* The frontier's comparator (a, b) => a[0] - b[0] is negative.
Before(a, b) == Less(a[1], b[1])

\* Mutant of SortPq: the frontier is not sorted, the oldest entry is popped.
SortPqUnsorted(s) == s

\* Array.prototype.sort with that comparator, a stable sort: entry i comes
\* after the entries that go before it and after the earlier entries that it
\* does not go before.
Rank(s, i) ==
  Cardinality({j \in 1..Len(s) : Before(s[j], s[i]) \/ (j < i /\ ~Before(s[i], s[j]))})

SortPq(s) == [k \in 1..Len(s) |-> s[CHOOSE i \in 1..Len(s) : Rank(s, i) = k - 1]]

\* The first loop of dijkstra: every key of the graph at Infinity / null.
RECURSIVE InitMap(_, _)
InitMap(keys, v) ==
  IF keys = <<>> THEN EmptyMap
  ELSE Set(InitMap(SubSeq(keys, 1, Len(keys) - 1), v), keys[Len(keys)], v)

\* Mutant of DistOf: every recorded distance reads as Infinity.
DistOfUnset(d, v) == Infinity

\* dist.get(v) ?? Infinity
DistOf(d, v) == IF Has(d, v) THEN Get(d, v) ELSE Infinity

\* Mutant of Improves: an equal distance counts as an improvement.
ImprovesOrEqual(alt, d, v) == ~Less(DistOf(d, v), alt)

\* The test of a relaxation.
Improves(alt, d, v) == Less(alt, DistOf(d, v))

\* Mutant of Relax: the predecessor is not recorded.
RelaxPrevUnset(st, u, dCur, v, w) ==
  LET alt == Add(dCur, w)
  IN  IF Less(alt, DistOf(st.dist, v))
        THEN [dist |-> Set(st.dist, v, alt),
              prev |-> st.prev,
              pq   |-> Append(st.pq, <<alt, v>>)]
        ELSE st

\* Mutant of Relax: the improvement is recorded but no entry is pushed.
RelaxWithoutPush(st, u, dCur, v, w) ==
  LET alt == Add(dCur, w)
  IN  IF Improves(alt, st.dist, v)
        THEN [dist |-> Set(st.dist, v, alt),
              prev |-> Set(st.prev, v, u),
              pq   |-> st.pq]
        ELSE st

\* Mutant of Relax: the entry pushed carries the distance of u, not alt.
RelaxPushesOld(st, u, dCur, v, w) ==
  LET alt == Add(dCur, w)
  IN  IF Improves(alt, st.dist, v)
        THEN [dist |-> Set(st.dist, v, alt),
              prev |-> Set(st.prev, v, u),
              pq   |-> Append(st.pq, <<dCur, v>>)]
        ELSE st

\* The body of the inner loop for the edge u -> v of weight w.
Relax(st, u, dCur, v, w) ==
  LET alt == Add(dCur, w)
  IN  IF Improves(alt, st.dist, v)
        THEN [dist |-> Set(st.dist, v, alt),
              prev |-> Set(st.prev, v, u),
              pq   |-> Append(st.pq, <<alt, v>>)]
        ELSE st

\* The inner loop over adj.entries(), in the map's order, from entry i on
\* (next is the state after entry i).
RECURSIVE RelaxFrom(_, _, _, _, _)
RelaxFrom(st, u, dCur, adj, i) ==
  IF i > Len(adj.keys) THEN st
  ELSE CHOOSE r \in {RelaxFrom(next, u, dCur, adj, i + 1) :
                      next \in {Relax(st, u, dCur, adj.keys[i], adj.val[i])}} : TRUE

\* Mutant of SourceMissing: the source is not tested.
SourceMissingUntested(g, src) == FALSE

\* The test that rejects a source.
SourceMissing(g, src) == ~Has(g, src)

\* Mutant of LoopCondition: the loop stops with one entry left.
LoopConditionOffByOne(q) == Len(q) > 1

\* The condition of the main loop: pq.length
LoopCondition(q) == Len(q) # 0

\* Mutant of IsVisited: no popped entry is skipped.
IsVisitedNever(vis, u) == FALSE

\* visited.has(u)
IsVisited(vis, u) == u \in vis

\* graph.get(u) || new Map()
AdjOf(g, u) == IF Has(g, u) THEN Get(g, u) ELSE EmptyMap

-----------------------------------------------------------------------------
(* reconstructPath *)

\* prev.get(cur) ?? null
PrevOf(p, cur) == IF Has(p, cur) THEN Get(p, cur) ELSE Null

\* The while loop: the nodes pushed from cur on.
RECURSIVE WalkBack(_, _)
WalkBack(p, cur) ==
  IF cur = Null THEN <<>> ELSE <<cur>> \o WalkBack(p, PrevOf(p, cur))

\* path.reverse()
Reverse(s) == [i \in 1..Len(s) |-> s[Len(s) + 1 - i]]

\* Mutant of reconstructPath: a target without a predecessor gives no path.
reconstructPathOfLinked(p, tgt) ==
  IF PrevOf(p, tgt) = Null THEN <<>> ELSE Reverse(WalkBack(p, tgt))

reconstructPath(p, tgt) == Reverse(WalkBack(p, tgt))

-----------------------------------------------------------------------------
(* extractNodes *)

\* The characters of the inputs, in the order of their UTF-16 code units.
CodeUnits ==
  <<"\t", "\n", "\r", " ", "#", "-", "0", "1", "2", "3", "4", "5", "6", "7", "8",
    "9", "A", "B", "C", "D", "Z", "a", "b", "e", "x">>

CodeUnit(c) == CHOOSE i \in 1..Len(CodeUnits) : CodeUnits[i] = c

\* a < b on strings: code unit by code unit, a proper prefix first.
RECURSIVE StringLess(_, _)
StringLess(a, b) ==
  IF b = "" THEN FALSE
  ELSE IF a = "" THEN TRUE
  ELSE IF CodeUnit(Char(a, 1)) # CodeUnit(Char(b, 1))
    THEN CodeUnit(Char(a, 1)) < CodeUnit(Char(b, 1))
  ELSE StringLess(SubSeq(a, 2, Len(a)), SubSeq(b, 2, Len(b)))

\* Set.prototype.add on a Set kept as the sequence of its elements in
\* insertion order.
AddNode(set, x) == IF x \in Range(set) THEN set ELSE Append(set, x)

\* Mutant of NodesOfLine: only the first field is added.
NodesOfLineFirstOnly(set, raw) ==
  LET line == Trim(raw)
      parts == SplitFields(line)
  IN  IF line = "" \/ StartsWith(line, "#") THEN set
      ELSE IF Len(parts) >= 2 THEN AddNode(set, parts[1])
      ELSE set

\* The body of the loop of extractNodes on one line.
NodesOfLine(set, raw) ==
  LET line == Trim(raw)
      parts == SplitFields(line)
  IN  IF line = "" \/ StartsWith(line, "#") THEN set
      ELSE IF Len(parts) >= 2 THEN AddNode(AddNode(set, parts[1]), parts[2])
      ELSE set

\* The loop of extractNodes from line i on.
RECURSIVE NodesFrom(_, _, _)
NodesFrom(set, ls, i) ==
  IF i > Len(ls) THEN set ELSE NodesFrom(NodesOfLine(set, ls[i]), ls, i + 1)

\* The place Array.prototype.sort() without a comparator gives s[i]: after
\* the elements that are less, and after the equal ones that came before.
StringRank(s, i) ==
  Cardinality({j \in 1..Len(s) :
                 StringLess(s[j], s[i]) \/ (j < i /\ ~StringLess(s[i], s[j]))})

\* Mutant of SortStrings: the array is left in insertion order.
SortStringsUnsorted(s) == s

\* Array.prototype.sort() on strings
SortStrings(s) ==
  [k \in 1..Len(s) |-> s[CHOOSE i \in 1..Len(s) : StringRank(s, i) = k - 1]]

extractNodes(text) == SortStrings(NodesFrom(<<>>, SplitLines(text), 1))

-----------------------------------------------------------------------------
(* The inputs *)

\* Well-formed edge lines: with and without a weight, with a zero weight,
\* with the weight 1e308, with runs of spaces and a carriage return, and two
\* for the same pair of nodes.
EdgeLines == {"A B 1e308", "A C\r", " C  B 0", "B D 1e308", "B D 4"}

\* Lines of every kind: edge lines (two of them for the same two nodes, one
\* with a tab), a blank line, a comment, a line of one field, a negative
\* weight and a weight that is no number.
AnyLines ==
  {"A B 1e308", "B\tA 2", "A C\r", " C  B 0", "", "# A B", "A", "A B -1", "A B x"}

\* Lines for the datalist: names of several characters, one a prefix of
\* another, upper and lower case, out of order and repeated; a line of one
\* field, a comment, a blank line, and weights parseEdges rejects.
NodeLines == {"b AB 1", "A b", "AB A x", "a B -1", "Z", "#D C", " "}

\* Edge lines that name the same pair of nodes twice, in the same order and
\* in the other, with different weights; one without a weight, one with the
\* same node twice.
PairLines == {"A B 1", "A B 2", "B A 3", "B C", "C C 5"}

\* sourceEl.value
SourceInputs == {"A", " B", "Z"}

\* targetEl.value
TargetInputs == {"A", "B ", "C", "D", "Z"}

-----------------------------------------------------------------------------
(* The submit handler *)

\* Mutant of NoPath: only an absent distance counts.
NoPathUndefinedOnly(total) == total = None

\* The test for the "No path found" branch, on total = dist.get(target).
NoPath(total) == total = None \/ ~IsFinite(total[1])

Render(kind, message, path, total) ==
  Some([kind |-> kind, message |-> message, path |-> path, total |-> total])

\* The page with an empty textarea, the datalist filled from it.
Init ==
  /\ edges = ""
  /\ nodesDl = extractNodes("")
  /\ pc = "idle"
  /\ lines = <<>>
  /\ idx = 1
  /\ undirected = TRUE
  /\ graph = EmptyMap
  /\ gRet = None
  /\ source = Null
  /\ dist = EmptyMap
  /\ prev = EmptyMap
  /\ visited = {}
  /\ pq = <<>>
  /\ popped = None
  /\ ret = None
  /\ target = Null
  /\ outcome = None

\* The lines typed so far: each ends with a line feed.
LineCount(text) == Cardinality({i \in 1..Len(text) : Char(text, i) = "\n"})

\* The 'input' handler, after one more line was typed at the end of the
\* textarea: refillNodes fills the datalist from extractNodes(edgesEl.value).
Input(line, most) ==
  /\ pc = "idle"
  /\ LineCount(edges) < most
  /\ \E text \in {edges \o line \o "\n"} :
       /\ edges' = text
       /\ nodesDl' = extractNodes(text)
  /\ UNCHANGED <<pc, lines, idx, undirected, graph, gRet, source, dist, prev, visited,
                 pq, popped, ret, target, outcome>>

\* The form is submitted: parseEdges is entered with the trimmed text.
Submit(text, und) ==
  /\ pc = "idle"
  /\ lines' = SplitLines(Trim(text))
  /\ idx' = 1
  /\ undirected' = und
  /\ graph' = EmptyMap
  /\ pc' = "parse"
  /\ UNCHANGED <<edges, nodesDl, gRet, source, dist, prev, visited, pq, popped, ret,
                 target, outcome>>

\* One iteration of the loop of parseEdges; a throw lands in the handler's catch.
ParseLine ==
  /\ pc = "parse"
  /\ idx <= Len(lines)
  /\ LET r == LineStep(graph, lines[idx], undirected)
     IN  IF r.err # None
           THEN /\ outcome' = Render("error", r.err[1], <<>>, None)
                /\ pc' = "done"
                /\ UNCHANGED <<graph, idx>>
           ELSE /\ graph' = r.graph
                /\ idx' = idx + 1
                /\ UNCHANGED <<pc, outcome>>
  /\ UNCHANGED <<edges, nodesDl, lines, undirected, gRet, source, dist, prev, visited, pq, popped,
                 ret, target>>

\* parseEdges returns its graph.
ParseReturn ==
  /\ pc = "parse"
  /\ idx > Len(lines)
  /\ gRet' = Some(graph)
  /\ pc' = "dijkstra"
  /\ UNCHANGED <<edges, nodesDl, lines, idx, undirected, graph, source, dist, prev, visited, pq,
                 popped, ret, target, outcome>>

\* dijkstra up to its main loop.
DijkstraStart(value) ==
  /\ pc = "dijkstra"
  /\ source' = Trim(value)
  /\ visited' = {}
  /\ LET g == gRet[1]
         src == Trim(value)
         d0 == InitMap(g.keys, Infinity)
         p0 == InitMap(g.keys, Null)
     IN  IF SourceMissing(g, src)
           THEN /\ dist' = d0
                /\ prev' = p0
                /\ pq' = <<>>
                /\ outcome' = Render("error", "Source '" \o src \o "' not in graph.",
                                     <<>>, None)
                /\ pc' = "done"
           ELSE /\ dist' = Set(d0, src, 0)
                /\ prev' = p0
                /\ pq' = << <<0, src>> >>
                /\ pc' = "loop"
                /\ UNCHANGED outcome
  /\ UNCHANGED <<edges, nodesDl, lines, idx, undirected, graph, gRet, popped, ret, target>>

\* One iteration of the main loop.
Iterate ==
  /\ pc = "loop"
  /\ LoopCondition(pq)
  /\ \E sorted \in {SortPq(pq)} :
       LET dCur == sorted[1][1]
           u == sorted[1][2]
           rest == Tail(sorted)
       IN  IF IsVisited(visited, u)
             THEN /\ pq' = rest
                  /\ popped' = Some([d |-> dCur, u |-> u, fresh |-> FALSE])
                  /\ UNCHANGED <<dist, prev, visited>>
             ELSE \E st \in {RelaxFrom([dist |-> dist, prev |-> prev, pq |-> rest],
                                       u, dCur, AdjOf(gRet[1], u), 1)} :
                    /\ visited' = visited \cup {u}
                    /\ dist' = st.dist
                    /\ prev' = st.prev
                    /\ pq' = st.pq
                    /\ popped' = Some([d |-> dCur, u |-> u, fresh |-> TRUE])
  /\ UNCHANGED <<edges, nodesDl, pc, lines, idx, undirected, graph, gRet, source, ret,
                 target, outcome>>

\* The loop ends and dijkstra returns {dist, prev}.
DijkstraReturn ==
  /\ pc = "loop"
  /\ ~LoopCondition(pq)
  /\ ret' = Some([dist |-> dist, prev |-> prev])
  /\ pc' = "lookup"
  /\ UNCHANGED <<edges, nodesDl, lines, idx, undirected, graph, gRet, source, dist, prev, visited,
                 pq, popped, target, outcome>>

\* The handler looks the target up and renders.
Lookup(value) ==
  /\ pc = "lookup"
  /\ target' = Trim(value)
  /\ LET tgt == Trim(value)
         total == IF Has(ret[1].dist, tgt) THEN Some(Get(ret[1].dist, tgt)) ELSE None
     IN  IF NoPath(total)
           THEN outcome' = Render("nopath", "", <<>>, total)
           ELSE outcome' = Render("path", "", reconstructPath(ret[1].prev, tgt), total)
  /\ pc' = "done"
  /\ UNCHANGED <<edges, nodesDl, lines, idx, undirected, graph, gRet, source, dist, prev, visited,
                 pq, popped, ret>>

\* The steps after the submit, which do not depend on the texts offered.
Run ==
  \/ ParseLine
  \/ ParseReturn
  \/ \E value \in SourceInputs : DijkstraStart(value)
  \/ Iterate
  \/ DijkstraReturn
  \/ \E value \in TargetInputs : Lookup(value)

\* The page with lines of any kind typed.
Next ==
  \/ \E line \in AnyLines : Input(line, MaxLines)
  \/ \E und \in BOOLEAN : Submit(edges, und)
  \/ Run

Spec == Init /\ [][Next]_vars

\* The page with well-formed edge lines typed.
NextEdges ==
  \/ \E line \in EdgeLines : Input(line, MaxEdges)
  \/ \E und \in BOOLEAN : Submit(edges, und)
  \/ Run

EdgeSpec == Init /\ [][NextEdges]_vars

\* The page with edge lines for the same pairs of nodes typed.
NextPairs ==
  \/ \E line \in PairLines : Input(line, MaxLines)
  \/ \E und \in BOOLEAN : Submit(edges, und)
  \/ Run

PairSpec == Init /\ [][NextPairs]_vars

\* The textarea alone: lines typed, the form never submitted.
NextNodes == \E line \in NodeLines : Input(line, MaxLines)

NodeSpec == Init /\ [][NextNodes]_vars

\* dijkstra is synchronous code: once entered, its loop runs on and returns.
FairEdgeSpec == EdgeSpec /\ WF_vars(Iterate) /\ WF_vars(DijkstraReturn)

-----------------------------------------------------------------------------
(* What the claims speak of *)

\* The graph has the edge u -> v.
HasEdge(g, u, v) == Has(g, u) /\ Has(Get(g, u), v)

\* Its weight.
EdgeWeight(g, u, v) == Get(Get(g, u), v)

\* A sequence of nodes that follows edges of g.
IsWalk(g, p) == \A i \in 1..(Len(p) - 1) : HasEdge(g, p[i], p[i + 1])

\* The walks of g from s of exactly k edges.
RECURSIVE WalksOfLength(_, _, _)
WalksOfLength(g, s, k) ==
  IF k = 0 THEN {<<s>>}
  ELSE UNION {{Append(p, v) : v \in {x \in Keys(g) : HasEdge(g, p[Len(p)], x)}} :
              p \in WalksOfLength(g, s, k - 1)}

\* The walks of g from s to n of at most as many edges as g has nodes: a walk
\* of more edges repeats a node, and with weights >= 0 dropping the cycle does
\* not make its sum larger.
Walks(g, s, n) ==
  {p \in UNION {WalksOfLength(g, s, k) : k \in 0..Len(g.keys)} : p[Len(p)] = n}

\* The sum of the weights along a walk, added from the source on as the
\* program adds them.
RECURSIVE WalkSum(_, _)
WalkSum(g, p) ==
  IF Len(p) <= 1 THEN 0
  ELSE Add(WalkSum(g, SubSeq(p, 1, Len(p) - 1)), EdgeWeight(g, p[Len(p) - 1], p[Len(p)]))

\* The nodes reachable from the nodes of r by following edges.
RECURSIVE ReachFrom(_, _)
ReachFrom(g, r) ==
  LET more == r \cup {v \in Keys(g) : \E u \in r : HasEdge(g, u, v)}
  IN  IF more = r THEN r ELSE ReachFrom(g, more)

Reachable(g, s, n) == n \in ReachFrom(g, {s})

\* dijkstra has returned.
Returned == ret # None

\* dijkstra has returned and the handler has not looked the target up yet.
JustReturned == pc = "lookup"

\* C1: when dijkstra returns, every node with a finite distance d has a walk
\* from the source whose weights sum to d, and no walk from the source to it
\* has a smaller sum.
C1_DistancesAreShortest ==
  JustReturned =>
    \A n \in Keys(gRet[1]) :
      LET d == Get(ret[1].dist, n)
          ws == Walks(gRet[1], source, n)
      IN  IsFinite(d) =>
            /\ \E p \in ws : WalkSum(gRet[1], p) = d
            /\ \A p \in ws : ~Less(WalkSum(gRet[1], p), d)

\* A node was first reached over a heavier edge from the source and ended with
\* a smaller distance over another node.
C1_Witness ==
  /\ JustReturned
  /\ \E n \in Keys(gRet[1]) :
       /\ HasEdge(gRet[1], source, n)
       /\ Less(Get(ret[1].dist, n), EdgeWeight(gRet[1], source, n))
       /\ Get(ret[1].prev, n) \notin {source, Null}

\* C2: when dijkstra returns, every node reachable from the source has a
\* finite distance, every other node of the graph has distance Infinity and
\* predecessor null, and the source has distance 0 and predecessor null.
C2_ReachableIffFinite ==
  JustReturned =>
    /\ \A n \in Keys(gRet[1]) :
         IF Reachable(gRet[1], source, n)
           THEN IsFinite(Get(ret[1].dist, n))
           ELSE Get(ret[1].dist, n) = Infinity /\ Get(ret[1].prev, n) = Null
    /\ Get(ret[1].dist, source) = 0
    /\ Get(ret[1].prev, source) = Null

\* C3: for every target with a finite distance, reconstructPath returns a
\* sequence from the source to the target along edges of the graph whose
\* weights sum to the target's distance.
C3_PathIsShortestRoute ==
  JustReturned =>
    \A t \in Keys(gRet[1]) :
      IsFinite(Get(ret[1].dist, t)) =>
        LET path == reconstructPath(ret[1].prev, t)
        IN  /\ path # <<>>
            /\ path[1] = source
            /\ path[Len(path)] = t
            /\ IsWalk(gRet[1], path)
            /\ WalkSum(gRet[1], path) = Get(ret[1].dist, t)

\* The handler rendered a path of three nodes or more.
C3_Witness ==
  /\ pc = "done"
  /\ outcome # None
  /\ outcome[1].kind = "path"
  /\ Len(outcome[1].path) >= 3
  /\ outcome[1].path = reconstructPath(ret[1].prev, target)

\* The entries the loop can still pop: those of the frontier, and for every
\* node not visited yet its own expansion and one push per outgoing edge.
OutDegree(g, u) == Len(AdjOf(g, u).keys)

RECURSIVE SumOver(_, _, _)
SumOver(g, nodes, i) ==
  IF i > Len(nodes) THEN 0
  ELSE (IF nodes[i] \in visited THEN 0 ELSE 1 + OutDegree(g, nodes[i]))
       + SumOver(g, nodes, i + 1)

Variant == Len(pq) + SumOver(gRet[1], gRet[1].keys, 1)

\* C4: the main loop terminates (dijkstra returns, and every iteration makes
\* the natural number Variant smaller), and it is left exactly when the
\* frontier is empty: by the return of dijkstra, and never while an entry
\* remains.
C4_LoopEndsWhenFrontierEmpty ==
  /\ (pc = "loop") ~> Returned
  /\ [][pc = "loop" =>
          /\ pq # <<>> => pc' = "loop" /\ Variant' < Variant /\ Variant' >= 0
          /\ pq = <<>> => pc' = "lookup" /\ ret' = Some([dist |-> dist, prev |-> prev])]_vars

\* dijkstra returned after an iteration that popped a stale entry.
C4_Witness ==
  /\ Returned
  /\ popped # None
  /\ ~popped[1].fresh

-----------------------------------------------------------------------------
(* What the claims say of an edge text *)

\* The fields of a line.
FieldsOf(raw) == SplitFields(Trim(raw))

\* A line that is neither blank nor a comment.
Meaningful(raw) == Trim(raw) # "" /\ ~StartsWith(Trim(raw), "#")

\* A field that is a finite number >= 0.
GoodWeight(f) == Number(f) \notin {NaN, Infinity} /\ Number(f) >= 0

\* A line parseEdges has to reject.
Malformed(raw) ==
  /\ Meaningful(raw)
  /\ \/ Len(FieldsOf(raw)) < 2
     \/ Len(FieldsOf(raw)) >= 3 /\ ~GoodWeight(FieldsOf(raw)[3])

\* A line that states an edge, and the edge (u, v, w) it states.
IsEdgeLine(raw) == Meaningful(raw) /\ ~Malformed(raw)

EdgeU(raw) == FieldsOf(raw)[1]
EdgeV(raw) == FieldsOf(raw)[2]
EdgeW(raw) == IF Len(FieldsOf(raw)) >= 3 THEN Number(FieldsOf(raw)[3]) ELSE 1

\* The indices of the malformed lines of the text, and the first of them.
BadLines == {i \in 1..Len(lines) : Malformed(lines[i])}
FirstBad == CHOOSE i \in BadLines : \A j \in BadLines : i <= j

\* The indices of the edge lines of the text.
EdgeIndices == {i \in 1..Len(lines) : IsEdgeLine(lines[i])}

\* The nodes the edge lines of the text name.
TextNodes == {EdgeU(lines[i]) : i \in EdgeIndices} \cup {EdgeV(lines[i]) : i \in EdgeIndices}

\* s ends with e; s contains e.
EndsWith(s, e) == Len(s) >= Len(e) /\ SubSeq(s, Len(s) - Len(e) + 1, Len(s)) = e
Contains(s, e) == \E i \in 1..(Len(s) - Len(e) + 1) : SubSeq(s, i, i + Len(e) - 1) = e

\* The query has ended with this kind of outcome.
Ended(kind) == pc = "done" /\ outcome # None /\ outcome[1].kind = kind

\* parseEdges has just returned its graph.
JustParsed == pc = "dijkstra"

\* C5: when some line is malformed, parseEdges runs up to the first such line
\* and fails there with an error that carries the trimmed line; no graph is
\* returned and nothing else runs.
C5_FailsAtFirstMalformedLine ==
  (pc # "idle" /\ BadLines # {}) =>
    /\ gRet = None
    /\ ret = None
    /\ idx <= FirstBad
    /\ pc \in {"parse", "done"}
    /\ pc = "done" =>
         /\ idx = FirstBad
         /\ Ended("error")
         /\ EndsWith(outcome[1].message, Trim(lines[FirstBad]))

\* The parse failed on a negative weight after it had installed edges.
C5_Witness ==
  /\ Ended("error")
  /\ BadLines # {}
  /\ FirstBad > 1
  /\ Len(FieldsOf(lines[FirstBad])) >= 3
  /\ Number(FieldsOf(lines[FirstBad])[3]) < 0
  /\ graph # EmptyMap

\* C6: when the source is not a node of the graph, dijkstra fails with an error
\* that names it, having visited and relaxed nothing and returned nothing.
C6_MissingSourceFails ==
  (gRet # None /\ source # Null /\ source \notin TextNodes) =>
    /\ Ended("error")
    /\ Contains(outcome[1].message, "'" \o source \o "'")
    /\ visited = {}
    /\ pq = <<>>
    /\ popped = None
    /\ ret = None
    /\ \A n \in Keys(dist) : Get(dist, n) = Infinity /\ Get(prev, n) = Null

\* dijkstra failed on a graph that has nodes.
C6_Witness ==
  /\ Ended("error")
  /\ gRet # None
  /\ gRet[1] # EmptyMap
  /\ source \notin Keys(gRet[1])

\* C7: a query ends in the error outcome exactly when a line is malformed or
\* the source is no node of the graph, else in the path outcome exactly when
\* the target has a finite distance, and else in the no-path outcome.
C7_OutcomeOfQuery ==
  pc = "done" =>
    LET failed == BadLines # {} \/ source \notin TextNodes
        finite == target \in TextNodes /\ IsFinite(Get(dist, target))
    IN  /\ outcome # None
        /\ outcome[1].kind = (IF failed THEN "error" ELSE IF finite THEN "path" ELSE "nopath")

\* The query found no path to a node of the graph.
C7_Witness ==
  /\ Ended("nopath")
  /\ target \in Keys(gRet[1])
  /\ target # source

\* The edge lines after line i that name the same two nodes as line i.
LaterSamePair(i) ==
  {j \in EdgeIndices : j > i /\ {EdgeU(lines[j]), EdgeV(lines[j])} = {EdgeU(lines[i]), EdgeV(lines[i])}}

\* Both directions of the edge of line i have its weight in g.
BothWays(g, i) ==
  LET u == EdgeU(lines[i])
      v == EdgeV(lines[i])
  IN  /\ HasEdge(g, u, v) /\ EdgeWeight(g, u, v) = EdgeW(lines[i])
      /\ HasEdge(g, v, u) /\ EdgeWeight(g, v, u) = EdgeW(lines[i])

\* C8 as stated: after an undirected parse, every edge line (u, v, w) has
\* graph[u][v] = w and graph[v][u] = w.
C8_EveryLineBothWays ==
  (JustParsed /\ undirected) => \A i \in EdgeIndices : BothWays(gRet[1], i)

\* C8, amended: after an undirected parse, every edge line (u, v, w) that no
\* later edge line for the same two nodes follows has graph[u][v] = w and
\* graph[v][u] = w.
C8_LastLineBothWays ==
  (JustParsed /\ undirected) =>
    \A i \in EdgeIndices : LaterSamePair(i) = {} => BothWays(gRet[1], i)

\* An undirected parse of a text with two edge lines for the same two nodes.
C8_Witness ==
  /\ JustParsed
  /\ undirected
  /\ \E i \in EdgeIndices : LaterSamePair(i) # {}

\* C9: after a parse, every node an edge line names is a key of the graph,
\* every neighbour in an inner map is a key of the graph, and a node that
\* got no outgoing edge has an empty inner map.
C9_EndpointsAreKeys ==
  JustParsed =>
    LET g == gRet[1]
    IN  /\ TextNodes \subseteq Keys(g)
        /\ \A k \in Keys(g) : Keys(Get(g, k)) \subseteq Keys(g)
        /\ \A k \in Keys(g) :
             (\A i \in EdgeIndices :
                 /\ EdgeU(lines[i]) # k
                 /\ ~(undirected /\ EdgeV(lines[i]) = k)) => Get(g, k) = EmptyMap

\* A directed parse left a node with no outgoing edge.
C9_Witness ==
  /\ JustParsed
  /\ ~undirected
  /\ \E k \in Keys(gRet[1]) : Get(gRet[1], k) = EmptyMap

\* The line with the weight 1 written out, if it is an edge line of two fields.
WithWeightOne(raw) ==
  IF Meaningful(raw) /\ Len(FieldsOf(raw)) = 2 THEN Trim(raw) \o " 1" ELSE raw

\* C10: the text with every edge line 'u v' replaced by 'u v 1' parses to the
\* same graph.
C10_DefaultWeightIsOne ==
  JustParsed =>
    LET r == ParseFrom(EmptyMap, [i \in 1..Len(lines) |-> WithWeightOne(lines[i])],
                       1, undirected)
    IN  r.err = None /\ r.graph = gRet[1]

\* A text with an edge line of two fields was parsed.
C10_Witness ==
  /\ JustParsed
  /\ \E i \in EdgeIndices : Len(FieldsOf(lines[i])) = 2

-----------------------------------------------------------------------------
(* The datalist *)

\* The lines of the textarea.
TextLines == SplitLines(edges)

\* The lines that name two nodes: neither blank nor a comment, of two fields
\* or more.
NamingLines == {i \in 1..Len(TextLines) :
                  Meaningful(TextLines[i]) /\ Len(FieldsOf(TextLines[i])) >= 2}

\* C11: the datalist holds exactly the first and second fields of the lines
\* that are neither blank nor comments and have two fields or more, whatever
\* their third field, in strictly ascending order (so without duplicates).
C11_NodesSortedAndExact ==
  /\ Range(nodesDl) = {FieldsOf(TextLines[i])[1] : i \in NamingLines}
                        \cup {FieldsOf(TextLines[i])[2] : i \in NamingLines}
  /\ \A i \in 1..(Len(nodesDl) - 1) : StringLess(nodesDl[i], nodesDl[i + 1])

\* The datalist was filled from a text with a line of one field and a line
\* with a malformed weight, whose nodes appear out of order and repeated.
C11_Witness ==
  /\ nodesDl = <<"A", "AB", "b">>
  /\ \E i \in 1..Len(TextLines) : Len(FieldsOf(TextLines[i])) = 1 /\ Meaningful(TextLines[i])
  /\ \E i \in NamingLines : Malformed(TextLines[i])

-----------------------------------------------------------------------------
(* The main loop of dijkstra *)

\* The last iteration expanded a node (it was not visited before).
Expanded == pc = "loop" /\ popped # None /\ popped[1].fresh

\* C12: no step of the main loop changes the distance or the predecessor of
\* a node that is visited, the node the step itself marks visited included.
C12_VisitedIsFinal ==
  [][pc = "loop" =>
       \A n \in visited' : /\ Get(dist', n) = Get(dist, n)
                           /\ Get(prev', n) = Get(prev, n)]_vars

\* A node was expanded that has an edge of weight zero to a node visited
\* before it: its relaxation offered that node an equal distance.
C12_Witness ==
  /\ Expanded
  /\ \E v \in visited \ {popped[1].u} :
       /\ HasEdge(gRet[1], popped[1].u, v)
       /\ Add(popped[1].d, EdgeWeight(gRet[1], popped[1].u, v)) = Get(dist, v)

\* How many entries of the frontier q equal e.
Count(q, e) == Cardinality({i \in 1..Len(q) : q[i] = e})

\* The frontier q2 holds what q1 holds but for one entry e less.
WithoutOne(q1, q2, e) ==
  /\ Count(q1, e) >= 1
  /\ \A f \in Range(q1) \cup Range(q2) :
       Count(q2, f) = Count(q1, f) - (IF f = e THEN 1 ELSE 0)

\* C13: an iteration of the main loop expands its node only when the node
\* was not visited before, and the visited set never loses a node, so no node
\* is expanded twice; an iteration that pops an entry of a visited node takes
\* that one entry from the frontier and changes nothing else.
C13_ExpandedOnceAndStalePopsSkip ==
  [][pc = "loop" /\ pq # <<>> =>
       LET e == <<popped'[1].d, popped'[1].u>>
       IN  /\ visited \subseteq visited'
           /\ popped'[1].fresh <=> e[2] \notin visited
           /\ popped'[1].fresh => visited' = visited \cup {e[2]}
           /\ ~popped'[1].fresh =>
                 /\ dist' = dist /\ prev' = prev /\ visited' = visited
                 /\ WithoutOne(pq, pq', e)]_vars

\* An entry of a node visited before was popped while other entries waited.
C13_Witness ==
  /\ pc = "loop"
  /\ popped # None
  /\ ~popped[1].fresh
  /\ popped[1].u \in visited
  /\ pq # <<>>

-----------------------------------------------------------------------------
(* The entries of the graph *)

\* The edge lines that install the ordered pair (u, v): the lines 'u v w'
\* and, in undirected mode, the lines 'v u w'.
Installers(u, v) ==
  {i \in EdgeIndices :
     \/ EdgeU(lines[i]) = u /\ EdgeV(lines[i]) = v
     \/ undirected /\ EdgeU(lines[i]) = v /\ EdgeV(lines[i]) = u}

LastOf(S) == CHOOSE i \in S : \A j \in S : j <= i

\* Every entry of the returned graph is the weight of the last line that
\* installs its pair, and there is no entry for a pair no line installs.
LastInstallerWins ==
  JustParsed =>
    \A u, v \in Keys(gRet[1]) \cup {"Z"} :
      IF Installers(u, v) = {}
        THEN ~HasEdge(gRet[1], u, v)
        ELSE /\ HasEdge(gRet[1], u, v)
             /\ EdgeWeight(gRet[1], u, v) = EdgeW(lines[LastOf(Installers(u, v))])

\* The graphs g1 and g2 agree on the entry of the pair (x, y).
SameEntry(g1, g2, x, y) ==
  /\ HasEdge(g1, x, y) <=> HasEdge(g2, x, y)
  /\ HasEdge(g1, x, y) => EdgeWeight(g1, x, y) = EdgeWeight(g2, x, y)

\* parseEdges is about to read an edge line in directed mode.
DirectedEdgeStep ==
  pc = "parse" /\ idx <= Len(lines) /\ ~undirected /\ IsEdgeLine(lines[idx])

\* C14 as stated: the last line that installs a pair decides its entry, and
\* in directed mode reading a line 'u v w' leaves the entry graph[v][u] as it
\* was.
C14_LastInstallerWinsNoReverse ==
  /\ []LastInstallerWins
  /\ [][DirectedEdgeStep =>
          SameEntry(graph, graph', EdgeV(lines[idx]), EdgeU(lines[idx]))]_vars

\* C14, amended: the last line that installs a pair decides its entry, and
\* in directed mode reading a line 'u v w' with u # v leaves the entry
\* graph[v][u] as it was.
C14_LastInstallerWinsNoReverseOfDistinct ==
  /\ []LastInstallerWins
  /\ [][DirectedEdgeStep /\ EdgeU(lines[idx]) # EdgeV(lines[idx]) =>
          SameEntry(graph, graph', EdgeV(lines[idx]), EdgeU(lines[idx]))]_vars

\* A directed parse of a text where a pair is installed twice with
\* different weights and the opposite pair once, before and after.
C14_Witness ==
  /\ JustParsed
  /\ ~undirected
  /\ \E u, v \in Keys(gRet[1]) :
       /\ u # v
       /\ Cardinality(Installers(u, v)) = 2
       /\ \E i, j \in Installers(u, v) : EdgeW(lines[i]) # EdgeW(lines[j])
       /\ Installers(v, u) # {}
       /\ EdgeWeight(gRet[1], u, v) # EdgeWeight(gRet[1], v, u)

-----------------------------------------------------------------------------
(* Ties in the frontier *)

\* The entries of the frontier q of least distance: any of them may be the
\* one a frontier hands out first.
MinEntries(q) == {i \in 1..Len(q) : \A j \in 1..Len(q) : ~Less(q[j][1], q[i][1])}

RemoveAt(q, i) == SubSeq(q, 1, i - 1) \o SubSeq(q, i + 1, Len(q))

\* One iteration of the main loop that pops entry i of the frontier.
StepWith(g, st, i) ==
  LET e == st.pq[i]
      rest == RemoveAt(st.pq, i)
  IN  IF e[2] \in st.visited THEN [st EXCEPT !.pq = rest]
      ELSE LET r == RelaxFrom([dist |-> st.dist, prev |-> st.prev, pq |-> rest],
                              e[2], e[1], AdjOf(g, e[2]), 1)
           IN  [dist |-> r.dist, prev |-> r.prev, pq |-> r.pq,
                visited |-> st.visited \cup {e[2]}, order |-> Append(st.order, e[2])]

\* The results of the main loop from st on, over every way of breaking ties.
RECURSIVE TieRunsFrom(_, _)
TieRunsFrom(g, st) ==
  IF st.pq = <<>> THEN {[dist |-> st.dist, prev |-> st.prev, order |-> st.order]}
  ELSE UNION {TieRunsFrom(g, next) :
                next \in {StepWith(g, st, i) : i \in MinEntries(st.pq)}}

\* The results of dijkstra(g, src) over every way of breaking ties.
TieRuns(g, src) ==
  TieRunsFrom(g, [dist |-> Set(InitMap(g.keys, Infinity), src, 0),
                  prev |-> InitMap(g.keys, Null),
                  pq |-> << <<0, src>> >>, visited |-> {}, order |-> <<>>])

\* C15: whichever entry of least distance each iteration pops, the distance
\* map at the end is the one dijkstra returns.
C15_DistancesIgnoreTieBreak ==
  JustReturned =>
    \A r \in TieRuns(gRet[1], source) : r.dist = ret[1].dist

\* dijkstra returned on a graph where entries of two nodes not yet visited
\* tied, so that nodes can be expanded in more than one order.
C15_Witness ==
  /\ JustReturned
  /\ \E r1, r2 \in TieRuns(gRet[1], source) : r1.order # r2.order

-----------------------------------------------------------------------------
(* reconstructPath on the maps dijkstra returns *)

\* The targets to ask for: the nodes of the graph and a name that is none.
Targets == Keys(gRet[1]) \cup {"Z"}

\* C16: on the predecessor map dijkstra returned, the path of a target that
\* is no node of the graph or that no walk from the source reaches is the
\* target alone.
C16_UnreachableGivesTargetAlone ==
  JustReturned =>
    \A t \in Targets :
      ~Reachable(gRet[1], source, t) => reconstructPath(ret[1].prev, t) = <<t>>

\* dijkstra returned on a graph with a node its source does not reach.
C16_Witness ==
  /\ JustReturned
  /\ \E t \in Keys(gRet[1]) :
       /\ ~Reachable(gRet[1], source, t)
       /\ reconstructPath(ret[1].prev, t) = <<t>>
  /\ ~Has(gRet[1], "Z")
  /\ reconstructPath(ret[1].prev, "Z") = <<"Z">>

\* The node k predecessor links up from cur, Null once the links have ended.
RECURSIVE Up(_, _, _)
Up(p, cur, k) == IF k = 0 \/ cur = Null THEN cur ELSE Up(p, PrevOf(p, cur), k - 1)

\* From each of the nodes the predecessor links end within as many steps as
\* there are nodes: no chain of links comes back to a node.
Acyclic(p, ns) == \A n \in ns : Up(p, n, Cardinality(ns)) = Null

\* dijkstra is in its main loop or has just returned.
InDijkstra == pc \in {"loop", "lookup"}

\* C17: throughout dijkstra the predecessor links are acyclic, and
\* reconstructPath on them gives, for every target, a path without a repeated
\* node and of no more nodes than the graph has.
C17_PredecessorsAcyclic ==
  InDijkstra =>
    /\ Acyclic(prev, Keys(gRet[1]))
    /\ \A t \in Targets :
         LET path == reconstructPath(prev, t)
         IN  /\ Len(path) <= Cardinality(Keys(gRet[1]))
             /\ Cardinality(Range(path)) = Len(path)

\* dijkstra runs on an undirected graph (every edge lies on a cycle) with an
\* edge of weight zero, and some node is three links away from the source.
C17_Witness ==
  /\ InDijkstra
  /\ undirected
  /\ \E u, v \in Keys(gRet[1]) : HasEdge(gRet[1], u, v) /\ EdgeWeight(gRet[1], u, v) = 0
  /\ \E t \in Keys(gRet[1]) : Len(reconstructPath(prev, t)) = 4

-----------------------------------------------------------------------------
(* The entries popped *)

\* C18: the entry an iteration pops for a node not visited yet carries the
\* distance recorded for that node, and an entry that carries more than the
\* recorded distance of its node is popped only when the node is visited.
C18_FreshPopIsCurrent ==
  [][pc = "loop" /\ pq # <<>> =>
       LET dCur == popped'[1].d
           u == popped'[1].u
       IN  /\ u \notin visited => dCur = Get(dist, u)
           /\ Less(Get(dist, u), dCur) => u \in visited]_vars

\* An entry was popped that carried more than the distance recorded for its
\* node, after an entry of a node not visited before had been popped.
C18_Witness ==
  /\ pc = "loop"
  /\ popped # None
  /\ Less(Get(dist, popped[1].u), popped[1].d)
  /\ Cardinality(visited) >= 2

\* The nodes with a finite recorded distance that are not visited.
Tentative == {n \in Keys(dist) : n \notin visited /\ IsFinite(Get(dist, n))}

\* C19: between the iterations of the main loop every node that is not
\* visited and has a finite recorded distance d has the entry (d, node) in the
\* frontier; so when the frontier is empty, and when dijkstra has returned,
\* there is no such node.
C19_TentativeNodesAreQueued ==
  /\ pc = "loop" => \A n \in Tentative : <<Get(dist, n), n>> \in Range(pq)
  /\ pc = "lookup" => Tentative = {}

\* The main loop stands between two iterations with two nodes waiting in
\* the frontier next to an entry that is out of date.
C19_Witness ==
  /\ pc = "loop"
  /\ Cardinality(Tentative) >= 2
  /\ \E i \in 1..Len(pq) : Less(Get(dist, pq[i][2]), pq[i][1])

-----------------------------------------------------------------------------
(* The datalist and the graph *)

\* C20: when parseEdges succeeds on the text of the textarea, the names
\* extractNodes gives for that text are the keys of the graph: for the graph
\* the handler got from the trimmed text, and for parseEdges on the text as
\* it stands.
C20_SuggestedNodesAreGraphNodes ==
  JustParsed =>
    /\ Range(nodesDl) = Keys(gRet[1])
    /\ LET r == parseEdges(edges, undirected)
       IN  r.err = None /\ Range(extractNodes(edges)) = Keys(r.graph)

\* A text with a comment, a blank line and edge lines that name three nodes
\* was parsed.
C20_Witness ==
  /\ JustParsed
  /\ Cardinality(Keys(gRet[1])) = 3
  /\ \E i \in 1..Len(TextLines) : StartsWith(TextLines[i], "#")
  /\ \E i \in 1..Len(TextLines) : TextLines[i] = ""
  /\ Len(nodesDl) = 3

====
